---- MODULE Spec2Model ----
(***************************************************************************)
(* Model of post.py: the Markdown-to-index publishing pipeline.            *)
(*                                                                         *)
(* Text is a sequence of one-character strings.  Three specifications:     *)
(*   SpecDate  parse_date applied to bounded date-prefixed texts           *)
(*   SpecPost  Post.__init__ / Post.part / Post.assemble on bounded bodies *)
(*   Spec      main() run after run, with backup.md and index.html         *)
(***************************************************************************)
EXTENDS Integers, Sequences, FiniteSets, TLC

VARIABLES
    \* ---- SpecDate: one application of parse_date
    dLead, dTok, dTail,   \* the parts the input text is built from
    dOut,                 \* Some(result of parse_date), None before the call
    \* ---- SpecPost: one construction and assembly of a Post
    pBlocks,              \* the blocks the body is built from
    pPost,                \* Some(the Post object), None before construction
    pFrag,                \* Some(result of assemble), None before the call
    \* ---- Spec: the files and the position of the current run of main()
    pc,                   \* next statement of main(), "idle" between runs
    argv,                 \* Some(text of the file named by sys.argv[1]), or None
    stdin,                \* Some(text read from standard input), or None
    today,                \* date.today()
    backup,               \* backup.md: Some(text), or None when absent
    index,                \* index.html: [hasMain, main], main the children
    markdown, source, soup, exitcode, runs,
    \* history (observers only, never read by the program)
    hIndex0,              \* index.html when the current run started
    hBackup0,             \* backup.md when the current run started
    hRaw,                 \* the text the current run read, before strip
    hCapIndex,            \* index.html when the pending input was first captured
    hLast,                \* Some(fragment inserted by the latest earlier run)
    hPending              \* an input was captured and not yet inserted

dateVars == <<dLead, dTok, dTail, dOut>>
postVars == <<pBlocks, pPost, pFrag>>
mainVars == <<pc, argv, stdin, today, backup, index, markdown, source, soup,
              exitcode, runs, hIndex0, hBackup0, hRaw, hCapIndex, hLast,
              hPending>>
vars == <<dateVars, postVars, mainVars>>

\* Optional values: None, or Some(x)
None == <<>>
Some(x) == <<x>>
Null == "null"

(***************************************************************************)
(* Text helpers (Python str semantics)                                     *)
(***************************************************************************)
WS == {" ", "\n", "\t"}
Digit == {"0", "1", "2", "3", "4", "5", "6", "7", "8", "9"}

DigitVal(c) ==
    CASE c = "0" -> 0 [] c = "1" -> 1 [] c = "2" -> 2 [] c = "3" -> 3
      [] c = "4" -> 4 [] c = "5" -> 5 [] c = "6" -> 6 [] c = "7" -> 7
      [] c = "8" -> 8 [] c = "9" -> 9

\* s[n:] with n a 0-based offset
Drop(s, n) == IF n >= Len(s) THEN <<>> ELSE SubSeq(s, n + 1, Len(s))

\* str.strip()
Strip(s) ==
    LET keep == {i \in 1..Len(s) : s[i] \notin WS}
    IN  IF keep = {} THEN <<>>
        ELSE LET lo == CHOOSE i \in keep : \A j \in keep : i <= j
                 hi == CHOOSE i \in keep : \A j \in keep : i >= j
             IN  SubSeq(s, lo, hi)

(***************************************************************************)
(* datetime.date                                                           *)
(***************************************************************************)
IsLeap(y) == (y % 4 = 0) /\ ((y % 100 # 0) \/ (y % 400 = 0))

DaysInMonth(y, m) ==
    IF m = 2 THEN (IF IsLeap(y) THEN 29 ELSE 28)
    ELSE IF m \in {4, 6, 9, 11} THEN 30 ELSE 31

\* dt.date(y, m, d) raises ValueError outside these ranges
ValidDate(y, m, d) ==
    /\ y \in 1..9999
    /\ m \in 1..12
    /\ d \in 1..DaysInMonth(y, m)

MkDate(y, m, d) == [year |-> y, month |-> m, day |-> d]

(***************************************************************************)
(* parse_date                                                              *)
(***************************************************************************)
IsDigitAt(t, i) == i <= Len(t) /\ t[i] \in Digit
IsCharAt(t, i, c) == i <= Len(t) /\ t[i] = c

Num(t, from, n) ==
    IF n = 1 THEN DigitVal(t[from])
    ELSE IF n = 2 THEN 10 * DigitVal(t[from]) + DigitVal(t[from + 1])
    ELSE 1000 * DigitVal(t[from]) + 100 * DigitVal(t[from + 1])
         + 10 * DigitVal(t[from + 2]) + DigitVal(t[from + 3])

\* re.match(r"(?P<year>\d{4})-(?P<month>\d{1,2})-(?P<day>\d{1,2})", t):
\* greedy; end is m.end(), the number of characters of t consumed.
MatchDate(t) ==
    LET mlen == IF IsDigitAt(t, 7) THEN 2 ELSE 1
        dpos == 6 + mlen + 1
        dlen == IF IsDigitAt(t, dpos + 1) THEN 2 ELSE 1
        ok   == /\ \A i \in 1..4 : IsDigitAt(t, i)
                /\ IsCharAt(t, 5, "-")
                /\ IsDigitAt(t, 6)
                /\ IsCharAt(t, 6 + mlen, "-")
                /\ IsDigitAt(t, dpos)
    IN  IF ok
        THEN [ok |-> TRUE, end |-> dpos + dlen - 1,
              year |-> Num(t, 1, 4), month |-> Num(t, 6, mlen),
              day |-> Num(t, dpos, dlen)]
        ELSE [ok |-> FALSE, end |-> 0, year |-> 0, month |-> 0, day |-> 0]

\* parse_date(markdown), with date.today() passed in.  The pattern is matched
\* against markdown.strip() but the remainder is sliced from markdown itself.
parse_date(md, now) ==
    LET m == MatchDate(Strip(md))
    IN  IF m.ok
        THEN IF ValidDate(m.year, m.month, m.day)
             THEN [err |-> "none", date |-> MkDate(m.year, m.month, m.day),
                   rest |-> Strip(Drop(md, m.end)), warned |-> FALSE]
             ELSE [err |-> "ValueError", date |-> Null, rest |-> <<>>,
                   warned |-> FALSE]
        ELSE [err |-> "none", date |-> now, rest |-> md, warned |-> TRUE]

(***************************************************************************)
(* Localized date captions                                                 *)
(* A caption is a text whose weekday and month names are single elements.  *)
(***************************************************************************)
WEEKDAYS ==
    [fr |-> <<"lundi", "mardi", "mercredi", "jeudi", "vendredi", "samedi",
              "dimanche">>,
     en |-> <<"Monday", "Tuesday", "Wednesday", "Thursday", "Friday",
              "Saturday", "Sunday">>]

MONTHS ==
    [fr |-> <<"janvier", "fevrier", "mars", "avril", "mai", "juin", "juillet",
              "aout", "septembre", "octobre", "novembre", "decembre">>,
     en |-> <<"January", "February", "March", "April", "May", "June", "July",
              "August", "September", "October", "November", "December">>]

\* str.capitalize() on the French weekday names
Capitalize(w) ==
    CASE w = "lundi" -> "Lundi" [] w = "mardi" -> "Mardi"
      [] w = "mercredi" -> "Mercredi" [] w = "jeudi" -> "Jeudi"
      [] w = "vendredi" -> "Vendredi" [] w = "samedi" -> "Samedi"
      [] w = "dimanche" -> "Dimanche" [] OTHER -> w

DigitChar(n) ==
    CASE n = 0 -> "0" [] n = 1 -> "1" [] n = 2 -> "2" [] n = 3 -> "3"
      [] n = 4 -> "4" [] n = 5 -> "5" [] n = 6 -> "6" [] n = 7 -> "7"
      [] n = 8 -> "8" [] n = 9 -> "9"

\* str(n) for n >= 0
RECURSIVE Dec(_)
Dec(n) == IF n < 10 THEN <<DigitChar(n)>>
          ELSE Dec(n \div 10) \o <<DigitChar(n % 10)>>

\* n formatted on exactly w digits, zero-padded (n < 10^w)
RECURSIVE Pad(_, _)
Pad(n, w) == IF w = 0 THEN <<>>
             ELSE Pad(n \div 10, w - 1) \o <<DigitChar(n % 10)>>

DaysBeforeYear(y) ==
    LET p == y - 1 IN p * 365 + (p \div 4) - (p \div 100) + (p \div 400)

RECURSIVE DaysBeforeMonth(_, _)
DaysBeforeMonth(y, m) ==
    IF m = 1 THEN 0 ELSE DaysBeforeMonth(y, m - 1) + DaysInMonth(y, m - 1)

\* date.weekday(): Monday is 0
Weekday(d) ==
    (DaysBeforeYear(d.year) + DaysBeforeMonth(d.year, d.month) + d.day + 6) % 7

format_date_fr(d) ==
    <<Capitalize(WEEKDAYS.fr[Weekday(d) + 1]), ",", " ">> \o Dec(d.day)
      \o <<" ", MONTHS.fr[d.month], " ">> \o Dec(d.year)

format_date_en(d) ==
    <<WEEKDAYS.en[Weekday(d) + 1], ",", " ", MONTHS.en[d.month], " ">>
      \o Dec(d.day) \o <<",", " ">> \o Dec(d.year)

\* FORMAT_DATE[part](date): a defaultdict whose default formats to ""
FORMAT_DATE(part, d) ==
    IF part = "fr" THEN format_date_fr(d)
    ELSE IF part = "en" THEN format_date_en(d)
    ELSE <<>>

(***************************************************************************)
(* HTML trees.  A soup is the sequence of its top-level nodes.             *)
(***************************************************************************)
Node(tag, cls, attr, text, kids) ==
    [tag |-> tag, cls |-> cls, attr |-> attr, text |-> text, kids |-> kids]

\* str.split(sep): leftmost, non-overlapping occurrences of sep
RECURSIVE SplitOn(_, _)
SplitOn(s, sep) ==
    LET n    == Len(sep)
        hits == {i \in 1..(Len(s) - n + 1) : SubSeq(s, i, i + n - 1) = sep}
    IN  IF hits = {} THEN <<s>>
        ELSE LET i == CHOOSE k \in hits : \A j \in hits : k <= j
             IN  <<SubSeq(s, 1, i - 1)>> \o SplitOn(Drop(s, i - 1 + n), sep)

\* mistune.escape
EscapeChar(c) ==
    CASE c = "<" -> "&lt;" [] c = ">" -> "&gt;" [] c = "&" -> "&amp;"
      [] OTHER -> c

Escape(s) == [i \in 1..Len(s) |-> EscapeChar(s[i])]

\* the lexers get_lexer_by_name knows, among the tags the model uses
KnownLexers == {<<"p", "y">>}

\* HighlightingRenderer.block_code(code, info); the <code> node keeps the
\* text as serialised
block_code(code, info) ==
    IF info # <<>>
    THEN IF info \in KnownLexers
         THEN [err |-> "none",
               nodes |-> <<Node("div", "highlight", <<>>, Strip(code), <<>>)>>]
         ELSE [err |-> "ClassNotFound", nodes |-> <<>>]
    ELSE [err |-> "none",
          nodes |-> <<Node("pre", "", <<>>, <<>>,
                           <<Node("code", "", <<>>, Escape(code), <<>>)>>)>>]

\* One text line per element, "\n" restored after each line of a code block
RECURSIVE JoinLines(_)
JoinLines(ls) ==
    IF ls = <<>> THEN <<>> ELSE Head(ls) \o <<"\n">> \o JoinLines(Tail(ls))

IsFence(line) == Len(line) >= 1 /\ line[1] = "~"

\* md2html on the lines of a section.  "~" stands for a code fence; a line
\* "# t" is a level-1 heading, "## t" a level-2 heading, any other
\* non-blank line a paragraph.
RECURSIVE RenderLines(_)
RenderLines(ls) ==
    IF ls = <<>> THEN [err |-> "none", nodes |-> <<>>]
    ELSE
      LET line == Strip(Head(ls)) IN
      IF IsFence(line)
      THEN LET closers == {i \in 2..Len(ls) : Strip(ls[i]) = <<"~">>}
               close   == IF closers = {} THEN Len(ls) + 1
                          ELSE CHOOSE k \in closers : \A j \in closers : k <= j
               code    == JoinLines(SubSeq(ls, 2, close - 1))
               blk     == block_code(code, Strip(Drop(line, 1)))
               rest    == RenderLines(Drop(ls, close))
           IN  IF blk.err # "none" THEN blk
               ELSE IF rest.err # "none" THEN rest
               ELSE [err |-> "none", nodes |-> blk.nodes \o rest.nodes]
      ELSE
        LET here ==
              IF line = <<>> THEN <<>>
              ELSE IF Len(line) >= 2 /\ line[1] = "#" /\ line[2] = " "
              THEN <<Node("h1", "", <<>>, Strip(Drop(line, 2)), <<>>)>>
              ELSE IF Len(line) >= 3 /\ line[1] = "#" /\ line[2] = "#"
                      /\ line[3] = " "
              THEN <<Node("h2", "", <<>>, Strip(Drop(line, 3)), <<>>)>>
              ELSE <<Node("p", "", <<>>, line, <<>>)>>
            rest == RenderLines(Tail(ls))
        IN  IF rest.err # "none" THEN rest
            ELSE [err |-> "none", nodes |-> here \o rest.nodes]

\* BeautifulSoup(md2html(text), features="html.parser")
md2html(text) == RenderLines(SplitOn(text, <<"\n">>))

(***************************************************************************)
(* class Post                                                              *)
(***************************************************************************)
SEP == <<"-", "-", "-", "\n">>

\* mutant: the slice [-3:] in place of [:3]
LastThree(blocks) ==
    LET padded == blocks \o <<<<>>, <<>>>>
    IN  SubSeq(padded, Len(padded) - 2, Len(padded))

\* (blocks + ["", ""])[:3]
FirstThree(blocks) == SubSeq(blocks \o <<<<>>, <<>>>>, 1, 3)

\* Post.__init__(markdown): err, or the date and the three rendered soups
PostInit(md, now) ==
    LET pd == parse_date(md, now) IN
    IF pd.err # "none"
    THEN [err |-> pd.err, date |-> Null, soups |-> Null]
    ELSE
      LET texts == FirstThree(SplitOn(pd.rest, SEP))
          fr    == md2html(texts[1])
          en    == md2html(texts[2])
          sx    == md2html(texts[3])
          bad   == {r \in {fr, en, sx} : r.err # "none"}
      IN  IF bad # {}
          THEN [err |-> "ClassNotFound", date |-> Null, soups |-> Null]
          ELSE [err |-> "none", date |-> pd.date,
                soups |-> [fr |-> fr.nodes, en |-> en.nodes,
                           suffix |-> sx.nodes]]

\* soup.h1 or soup.h2: position of the first h1, else of the first h2, else 0
HeadingAt(nodes) ==
    LET h1s == {i \in 1..Len(nodes) : nodes[i].tag = "h1"}
        h2s == {i \in 1..Len(nodes) : nodes[i].tag = "h2"}
    IN  IF h1s # {} THEN CHOOSE i \in h1s : \A j \in h1s : i <= j
        ELSE IF h2s # {} THEN CHOOSE i \in h2s : \A j \in h2s : i <= j
        ELSE 0

\* str.lower() on the letters the model's titles use
LowerChar(c) ==
    CASE c = "A" -> "a" [] c = "B" -> "b" [] c = "T" -> "t" [] OTHER -> c

SlugChars == {"a", "b", "t", "x"} \cup Digit

\* re.sub(r"[^a-z0-9]", " ", text.lower())
Sanitize(text) ==
    [i \in 1..Len(text) |->
        IF LowerChar(text[i]) \in SlugChars THEN LowerChar(text[i]) ELSE " "]

\* "-".join(["", *s.split()]): every word of s, each preceded by a hyphen
RECURSIVE HyphenWords(_, _)
HyphenWords(s, inWord) ==
    IF s = <<>> THEN <<>>
    ELSE IF Head(s) \in WS THEN HyphenWords(Tail(s), FALSE)
    ELSE (IF inWord THEN <<>> ELSE <<"-">>) \o <<Head(s)>>
         \o HyphenWords(Tail(s), TRUE)

\* date.strftime("%Y%m%d")
Timestamp(d) == Pad(d.year, 4) \o Pad(d.month, 2) \o Pad(d.day, 2)

\* Post.get_id(): err when the English soup has neither h1 nor h2
get_id(post) ==
    LET en == post.soups.en
        h  == HeadingAt(en)
    IN  IF h = 0 THEN [err |-> "AttributeError", id |-> <<>>]
        ELSE [err |-> "none",
              id |-> Timestamp(post.date)
                     \o HyphenWords(Sanitize(en[h].text), FALSE)]

\* Post.part(part): the section's soup, its heading (if any) decorated.
\* The self-link glyph is written "L"; title.append(...) returns the new div,
\* as it does in the bs4 releases the script's unpinned dependency resolves to.
\* The suffix takes this path too: FORMAT_DATE then gives the empty caption.
PostPart(post, part) ==
    IF part \notin DOMAIN post.soups THEN [err |-> "none", nodes |-> <<>>]
    ELSE
      LET nodes == post.soups[part]
          h     == HeadingAt(nodes)
      IN  IF h = 0 THEN [err |-> "none", nodes |-> nodes]
          ELSE
            LET gid == get_id(post) IN
            IF gid.err # "none" THEN [err |-> gid.err, nodes |-> <<>>]
            ELSE
              LET link    == Node("a", "selflink", <<"#">> \o gid.id,
                                  <<"L">>, <<>>)
                  heading == [nodes[h] EXCEPT !.kids = @ \o <<link>>]
                  divDate == Node("div", "", <<>>,
                                  FORMAT_DATE(part, post.date), <<>>)
                  title   == Node("div", "post-meta", <<>>, <<>>,
                                  <<heading, divDate>>)
              IN  [err |-> "none", nodes |-> [nodes EXCEPT ![h] = title]]

\* mutant: the suffix is appended in a container whether empty or not
AppendSuffixAlways(parts, sx) ==
    parts \o <<Node("div", "", <<>>, <<>>, sx)>>

\* if str(suffix := self.part("suffix")): parts.append(suffix)
AppendSuffix(parts, sx) == IF sx # <<>> THEN parts \o sx ELSE parts

\* Post.assemble(): the <article> fragment.  Each language div is appended to
\* the soup holding <div class="polyglot">, hence after that div, not in it.
PostAssemble(post) ==
    LET fr  == PostPart(post, "fr")
        en  == PostPart(post, "en")
        sx  == PostPart(post, "suffix")
        gid == get_id(post)
        bad == {r.err : r \in {fr, en, sx}} \ {"none"}
    IN  IF bad # {} THEN [err |-> CHOOSE e \in bad : TRUE, nodes |-> <<>>]
        ELSE IF gid.err # "none" THEN [err |-> gid.err, nodes |-> <<>>]
        ELSE
          LET parts == AppendSuffix(
                         <<Node("div", "polyglot", <<>>, <<>>, <<>>),
                           Node("div", "fr", <<>>, <<>>, fr.nodes),
                           Node("div", "en noshow", <<>>, <<>>, en.nodes)>>,
                         sx.nodes)
          IN  [err |-> "none",
               nodes |-> <<Node("article", "", <<>>, <<>>,
                               <<Node("a", "", gid.id, <<>>, <<>>)>>
                               \o parts)>>]

(***************************************************************************)
(* Bounds and input alphabets                                              *)
(***************************************************************************)
MaxLead == 2      \* longest run of whitespace put before a date token
MaxBlocks == 4    \* most "---"-separated blocks in a generated body

\* date.today() in the single-call specifications
Today0 == MkDate(2026, 11, 1)

Blank(n, c) == [i \in 1..n |-> c]

Leads == {Blank(n, " ") : n \in 0..MaxLead} \cup {Blank(n, "\n") : n \in 1..MaxLead}

YearToks  == {<<"2", "0", "2", "4">>, <<"0", "0", "0", "0">>}
MonthToks == {<<"1">>, <<"0", "2">>, <<"1", "2">>, <<"1", "3">>}
DayToks   == {<<"5">>, <<"2", "9">>, <<"3", "0">>, <<"0">>}

Tails == {<<>>, <<"\n">>, <<"x">>, <<"\n", "#", " ", "T", "\n">>,
          <<" ", "x", " ", "\n">>, <<"7", " ", "x">>}

TokenText(tok) == tok.y \o <<"-">> \o tok.m \o <<"-">> \o tok.d

DateText == dLead \o TokenText(dTok) \o dTail

(***************************************************************************)
(* SpecDate: parse_date on lead \o token \o tail                           *)
(***************************************************************************)
NoToken == [y |-> <<>>, m |-> <<>>, d |-> <<>>]

IdleDate ==
    /\ dLead = <<>> /\ dTok = NoToken /\ dTail = <<>> /\ dOut = None

IdlePost ==
    /\ pBlocks = <<>> /\ pPost = None /\ pFrag = None

EmptyIndex == [hasMain |-> TRUE, main |-> <<>>]

IdleMain ==
    /\ pc = "off" /\ argv = None /\ stdin = None /\ today = Today0
    /\ backup = None /\ index = EmptyIndex /\ markdown = <<>>
    /\ source = "none" /\ soup = None /\ exitcode = "" /\ runs = 0
    /\ hIndex0 = EmptyIndex /\ hBackup0 = None /\ hRaw = <<>>
    /\ hCapIndex = EmptyIndex /\ hLast = None /\ hPending = FALSE

InitDate ==
    /\ dLead \in Leads
    /\ dTok \in [y : YearToks, m : MonthToks, d : DayToks]
    /\ dTail \in Tails
    /\ dOut = None
    /\ IdlePost /\ IdleMain

CallParseDate ==
    /\ dOut = None
    /\ dOut' = Some(parse_date(DateText, Today0))
    /\ UNCHANGED <<dLead, dTok, dTail, postVars, mainVars>>

NextDate == CallParseDate

SpecDate == InitDate /\ [][NextDate]_vars

\* ---- properties of parse_date ----
TokDate == MkDate(Num(dTok.y, 1, 4), Num(dTok.m, 1, Len(dTok.m)),
                  Num(dTok.d, 1, Len(dTok.d)))

\* the token is a calendar date and the text after it cannot extend its day
TokIsExactPrefix ==
    /\ ValidDate(TokDate.year, TokDate.month, TokDate.day)
    /\ (Len(dTok.d) = 2 \/ dTail = <<>> \/ Head(dTail) \notin Digit)

\* C7: for every valid date-prefixed input, also with whitespace before or
\* after the date token, parse_date returns exactly the date of the prefix
\* and, as remainder, the input minus that prefix and the whitespace around.
C7_ParseDateExact ==
    (dOut # None /\ TokIsExactPrefix) =>
        /\ dOut[1].err = "none"
        /\ dOut[1].date = TokDate
        /\ dOut[1].rest = Strip(dTail)

\* The same statement restricted to inputs that start with the date token
\* (what Post.__init__ receives from main, which strips its input).
ParseDateExactWhenStripped ==
    (dOut # None /\ TokIsExactPrefix /\ dLead = <<>>) =>
        /\ dOut[1].err = "none"
        /\ dOut[1].date = TokDate
        /\ dOut[1].rest = Strip(dTail)

(***************************************************************************)
(* SpecPost: Post(markdown).assemble() on date \o blocks joined by "---"   *)
(***************************************************************************)
BlockTexts ==
    {<<>>,
     <<"#", " ", "A", " ", "b">>,
     <<"#", "#", " ", "T", "\n", "x">>,
     <<"x", " ", "<">>,
     <<"~", "p", "y", "\n", "x", "\n", "~">>,
     <<"~", "z", "z", "\n", "x", "\n", "~">>}

RECURSIVE SeqsUpTo(_, _)
SeqsUpTo(S, n) ==
    IF n = 0 THEN {<<>>}
    ELSE LET shorter == SeqsUpTo(S, n - 1)
         IN  shorter \cup {Append(q, x) : q \in shorter, x \in S}

\* blocks joined by a line "---"
RECURSIVE JoinBlocks(_)
JoinBlocks(bs) ==
    IF bs = <<>> THEN <<>>
    ELSE IF Len(bs) = 1 THEN Head(bs)
    ELSE Head(bs) \o <<"\n">> \o SEP \o JoinBlocks(Tail(bs))

DatePrefix == <<"2", "0", "2", "4", "-", "1", "-", "5", "\n">>

PostText == DatePrefix \o JoinBlocks(pBlocks)

InitPost ==
    /\ pBlocks \in SeqsUpTo(BlockTexts, MaxBlocks)
    /\ pPost = None /\ pFrag = None
    /\ IdleDate /\ IdleMain

\* post = Post(markdown)
Construct ==
    /\ pPost = None
    /\ pPost' = Some(PostInit(PostText, Today0))
    /\ UNCHANGED <<pBlocks, pFrag, dateVars, mainVars>>

\* post.assemble()
Assemble ==
    /\ pPost # None /\ pFrag = None
    /\ pPost[1].err = "none"
    /\ pFrag' = Some(PostAssemble(pPost[1]))
    /\ UNCHANGED <<pBlocks, pPost, dateVars, mainVars>>

NextPost == Construct \/ Assemble

SpecPost == InitPost /\ [][NextPost]_vars

\* ---- properties of Post ----
\* The body ends in a non-blank block, so stripping removes no separator.
WellFormedBlocks == pBlocks = <<>> \/ pBlocks[Len(pBlocks)] # <<>>

BlockOrEmpty(i) == IF i <= Len(pBlocks) THEN pBlocks[i] ELSE <<>>

\* C9: the body is split on "---\n"; blocks 1, 2, 3 become the fr, en and
\* suffix sections in that order, a missing block is the empty section, and
\* blocks after the third are discarded (they are not even rendered).
C9_FirstThreeBlocks ==
    (pPost # None /\ WellFormedBlocks) =>
        LET fr == md2html(BlockOrEmpty(1))
            en == md2html(BlockOrEmpty(2))
            sx == md2html(BlockOrEmpty(3))
        IN  IF fr.err # "none" \/ en.err # "none" \/ sx.err # "none"
            THEN pPost[1].err = "ClassNotFound"
            ELSE /\ pPost[1].err = "none"
                 /\ pPost[1].soups.fr = fr.nodes
                 /\ pPost[1].soups.en = en.nodes
                 /\ pPost[1].soups.suffix = sx.nodes

\* four blocks, the fourth one unrenderable, and the post is still built
C9_Witness ==
    /\ pPost # None /\ Len(pBlocks) = 4
    /\ md2html(pBlocks[4]).err # "none"
    /\ pPost[1].err = "none"
    /\ pPost[1].soups.fr # <<>> /\ pPost[1].soups.suffix # <<>>
    /\ pPost[1].soups.fr # pPost[1].soups.en

Assembled == pFrag # None /\ pFrag[1].err = "none"

ArticleKids == pFrag[1].nodes[1].kids

KidsWithClass(c) == {i \in 1..Len(ArticleKids) : ArticleKids[i].cls = c}

\* C8: with both language sections present, the article holds the fr
\* container, then the en container flagged "noshow", then the suffix
\* fragment, which is left out exactly when the rendered suffix is empty.
C8_SectionOrder ==
    (Assembled /\ pPost[1].soups.fr # <<>> /\ pPost[1].soups.en # <<>>) =>
        /\ Len(pFrag[1].nodes) = 1
        /\ pFrag[1].nodes[1].tag = "article"
        /\ \E i \in 1..(Len(ArticleKids) - 1) :
              /\ KidsWithClass("fr") = {i}
              /\ KidsWithClass("en noshow") = {i + 1}
              /\ ArticleKids[i].tag = "div" /\ ArticleKids[i + 1].tag = "div"
              /\ Len(ArticleKids[i].kids) = Len(pPost[1].soups.fr)
              /\ Len(ArticleKids[i + 1].kids) = Len(pPost[1].soups.en)
              /\ Len(ArticleKids) - (i + 1) = Len(pPost[1].soups.suffix)
              /\ (Len(ArticleKids) = i + 1) <=> (pPost[1].soups.suffix = <<>>)

C8_Witness ==
    /\ Assembled
    /\ pPost[1].soups.fr # <<>> /\ pPost[1].soups.en # <<>>
    /\ pPost[1].soups.suffix # <<>>
    /\ Len(ArticleKids) > 4

RECURSIVE HasClass(_, _)
HasClass(nodes, c) ==
    \E i \in 1..Len(nodes) : nodes[i].cls = c \/ HasClass(nodes[i].kids, c)

\* the nodes of the article that come after the en container
SuffixInArticle ==
    LET en == CHOOSE i \in KidsWithClass("en noshow") : TRUE
    IN  SubSeq(ArticleKids, en + 1, Len(ArticleKids))

\* C10: the suffix of an assembled post carries no post-meta wrapper (hence
\* no date sub-element) and no self-link, even when it contains a heading.
C10_SuffixUndecorated ==
    Assembled =>
        /\ ~HasClass(SuffixInArticle, "post-meta")
        /\ ~HasClass(SuffixInArticle, "selflink")

\* What holds instead: a suffix without h1/h2 is inserted as rendered.
SuffixPlainWhenNoHeading ==
    (Assembled /\ HeadingAt(pPost[1].soups.suffix) = 0) =>
        SuffixInArticle = pPost[1].soups.suffix

(***************************************************************************)
(* Spec: main(), one invocation after another                              *)
(***************************************************************************)
MaxRuns == 3      \* invocations of the program in one behaviour

H1Ab  == <<"#", " ", "A", " ", "b">>
H2Tx  == <<"#", "#", " ", "T", "\n", "x">>
ParaX == <<"x", " ", "<">>
BadFence == <<"~", "z", "z", "\n", "x", "\n", "~">>
BadDatePrefix == <<"2", "0", "2", "4", "-", "1", "3", "-", "5", "\n">>

\* the texts an operator may hand to the program (a file, or typed input)
Docs ==
    {<<>>,
     <<" ", "\n">>,
     <<"\n">> \o DatePrefix \o JoinBlocks(<<H1Ab, H1Ab>>) \o <<"\n">>,
     DatePrefix \o JoinBlocks(<<ParaX, H2Tx, H1Ab>>),
     JoinBlocks(<<H2Tx, H2Tx>>),
     BadDatePrefix \o JoinBlocks(<<H1Ab, H1Ab>>),
     <<" ">> \o DatePrefix \o JoinBlocks(<<BadFence, H1Ab>>) \o <<"\n">>,
     DatePrefix \o JoinBlocks(<<H1Ab>>)}

Tomorrow0 == MkDate(2026, 11, 2)

OldPost == Node("article", "", <<>>, <<"o", "l", "d">>, <<>>)

\* index.html as found: with an empty <main>, with one earlier post, or
\* without any <main>
Indexes ==
    {EmptyIndex,
     [hasMain |-> TRUE, main |-> <<OldPost>>],
     [hasMain |-> FALSE, main |-> <<>>]}

Init ==
    /\ pc = "idle" /\ argv = None /\ stdin = None /\ today = Today0
    /\ backup = None
    /\ index \in Indexes
    /\ markdown = <<>> /\ source = "none" /\ soup = None /\ exitcode = ""
    /\ runs = 0
    /\ hIndex0 = index /\ hBackup0 = None /\ hRaw = <<>>
    /\ hCapIndex = index /\ hLast = None /\ hPending = FALSE
    /\ IdleDate /\ IdlePost

\* the operator starts the program, with or without a file argument
StartRun ==
    /\ pc = "idle" /\ runs < MaxRuns
    /\ runs' = runs + 1
    /\ argv' \in {None} \cup {Some(d) : d \in Docs}
    /\ today' \in {today, Tomorrow0}
    /\ pc' = "input"
    /\ stdin' = None /\ markdown' = <<>> /\ source' = "none" /\ soup' = None
    /\ exitcode' = "" /\ hRaw' = <<>>
    /\ hIndex0' = index /\ hBackup0' = backup
    /\ hLast' = IF index # hIndex0 THEN soup ELSE hLast
    /\ UNCHANGED <<backup, index, hCapIndex, hPending, dateVars, postVars>>

\* mutant: backup.md is preferred to the file argument
ChooseSourceBackupFirst(a, b) ==
    IF b # None THEN "backup"
    ELSE IF a # None THEN "argv"
    ELSE "stdin"

\* get_code_markdown: which of the three sources is read
ChooseSource(a, b) ==
    IF a # None THEN "argv"
    ELSE IF b # None THEN "backup"
    ELSE "stdin"

\* mutant: the empty-input exit also removes backup.md
EmptyExitUnlink ==
    /\ pc' = "idle" /\ exitcode' = "0" /\ markdown' = <<>>
    /\ backup' = None
    /\ UNCHANGED index

\* sys.exit(0) on empty input: nothing is written
EmptyExit ==
    /\ pc' = "idle" /\ exitcode' = "0" /\ markdown' = <<>>
    /\ UNCHANGED <<backup, index>>

\* markdown = get_code_markdown()
GetCodeMarkdown ==
    /\ pc = "input"
    /\ LET src == ChooseSource(argv, backup) IN
       \E typed \in Docs :
          LET code == IF src = "argv" THEN argv[1]
                      ELSE IF src = "backup" THEN backup[1]
                      ELSE typed
          IN  /\ src # "stdin" => typed = <<>>
              /\ source' = src
              /\ stdin' = IF src = "stdin" THEN Some(typed) ELSE None
              /\ hRaw' = code
              /\ IF Strip(code) = <<>>
                 THEN EmptyExit
                 ELSE /\ markdown' = Strip(code)
                      /\ pc' = "write_backup"
                      /\ UNCHANGED <<backup, index, exitcode>>
    /\ UNCHANGED <<argv, today, soup, runs, hIndex0, hBackup0, hCapIndex,
                   hLast, hPending, dateVars, postVars>>

\* PATH_BACKUP.write_text(markdown + "\n")
WriteBackup ==
    /\ pc = "write_backup"
    /\ backup' = Some(markdown \o <<"\n">>)
    /\ pc' = "post"
    /\ hPending' = TRUE
    /\ hCapIndex' = IF source = "backup" THEN hCapIndex ELSE index
    /\ UNCHANGED <<argv, stdin, today, index, markdown, source, soup,
                   exitcode, runs, hIndex0, hBackup0, hRaw, hLast,
                   dateVars, postVars>>

\* mutant: the handler cleans backup.md up as the success path does
RaiseExceptionUnlink ==
    /\ pc' = "idle" /\ exitcode' = "raised"
    /\ backup' = None
    /\ UNCHANGED index

\* except Exception: add the note and re-raise; backup.md stays
RaiseException ==
    /\ pc' = "idle" /\ exitcode' = "raised"
    /\ UNCHANGED <<backup, index>>

\* soup = Post(markdown).assemble()
BuildPost ==
    /\ pc = "post"
    /\ LET post == PostInit(markdown, today)
           frag == IF post.err = "none" THEN PostAssemble(post)
                   ELSE [err |-> post.err, nodes |-> <<>>]
       IN  IF frag.err # "none"
           THEN RaiseException /\ UNCHANGED soup
           ELSE /\ soup' = Some(frag.nodes)
                /\ pc' = "insert"
                /\ UNCHANGED <<backup, index, exitcode>>
    /\ UNCHANGED <<argv, stdin, today, markdown, source, runs, hIndex0,
                   hBackup0, hRaw, hCapIndex, hLast, hPending, dateVars,
                   postVars>>

\* mutant: append in place of insert(0, ...)
InsertLast(main, post) == main \o post

\* index.main.insert(0, post)
InsertFirst(main, post) == post \o main

\* insert_post(soup): index.html is rewritten only after the insertion
InsertPost ==
    /\ pc = "insert"
    /\ IF ~index.hasMain
       THEN RaiseException /\ UNCHANGED hPending
       ELSE /\ index' = [index EXCEPT !.main = InsertFirst(@, soup[1])]
            /\ pc' = "unlink"
            /\ hPending' = FALSE
            /\ UNCHANGED <<backup, exitcode>>
    /\ UNCHANGED <<argv, stdin, today, markdown, source, soup, runs, hIndex0,
                   hBackup0, hRaw, hCapIndex, hLast, dateVars, postVars>>

\* PATH_BACKUP.unlink(missing_ok=True)
UnlinkBackup ==
    /\ pc = "unlink"
    /\ backup' = None
    /\ pc' = "serve"
    /\ UNCHANGED <<argv, stdin, today, index, markdown, source, soup,
                   exitcode, runs, hIndex0, hBackup0, hRaw, hCapIndex, hLast,
                   hPending, dateVars, postVars>>

\* serve_forever(): runs until Ctrl+C, then sys.exit(0)
ServeForever ==
    /\ pc = "serve"
    /\ pc' = "idle" /\ exitcode' = "0"
    /\ UNCHANGED <<argv, stdin, today, backup, index, markdown, source, soup,
                   runs, hIndex0, hBackup0, hRaw, hCapIndex, hLast, hPending,
                   dateVars, postVars>>

\* except KeyboardInterrupt: "Interrupt. No post." and sys.exit(1); the
\* interrupt may arrive before any statement of the try block
Interrupt ==
    /\ pc \in {"input", "write_backup", "post", "insert", "unlink"}
    /\ pc' = "idle" /\ exitcode' = "1"
    /\ UNCHANGED <<argv, stdin, today, backup, index, markdown, source, soup,
                   runs, hIndex0, hBackup0, hRaw, hCapIndex, hLast, hPending,
                   dateVars, postVars>>

Next ==
    \/ StartRun
    \/ GetCodeMarkdown
    \/ WriteBackup
    \/ BuildPost
    \/ InsertPost
    \/ UnlinkBackup
    \/ ServeForever
    \/ Interrupt

Spec == Init /\ [][Next]_vars

\* ---- properties of main ----
RunEnded == pc = "idle" /\ runs > 0

\* C1: at every run boundary backup.md exists if and only if the latest
\* captured input has not been inserted into index.html.
C1_BackupIffPending ==
    pc = "idle" => ((backup # None) <=> hPending)

\* C1, second half: backup.md appears only by the write that precedes all
\* HTML work, and disappears only once index.html has been rewritten.
BackupCreatedFirstDeletedLast ==
    [][/\ (backup = None /\ backup' # None) => (pc = "write_backup" /\ soup = None)
       /\ (backup # None /\ backup' = None) => (pc = "unlink" /\ ~hPending)]_vars

\* C2: a run that fails in date parsing, rendering, heading lookup or the
\* lookup of <main> leaves index.html as it was before the run, and
\* backup.md holds the input the run read (stripped, newline-terminated).
C2_FailureKeepsIndexAndBackup ==
    (RunEnded /\ exitcode = "raised") =>
        /\ index = hIndex0
        /\ backup = Some(Strip(hRaw) \o <<"\n">>)

C2_Witness ==
    /\ RunEnded /\ exitcode = "raised"
    /\ index.hasMain /\ index.main # <<>>
    /\ hBackup0 = None /\ hRaw # Strip(hRaw)

\* C3: when a run resumes from backup.md an input that an earlier run
\* captured, index.html ends up with exactly one post more than it had when
\* the input was first captured.
C3_ResumeInsertsOnce ==
    (pc \in {"unlink", "serve"} /\ source = "backup") =>
        Len(index.main) = Len(hCapIndex.main) + 1

\* C4: the input comes from the file argument when there is one, else from
\* backup.md when it exists, else from standard input, which is read in no
\* other case.
C4_SourcePriority ==
    source # "none" =>
        /\ argv # None => (source = "argv" /\ hRaw = argv[1])
        /\ (argv = None /\ hBackup0 # None) =>
               (source = "backup" /\ hRaw = hBackup0[1])
        /\ (argv = None /\ hBackup0 = None) => source = "stdin"
        /\ stdin # None => (source = "stdin" /\ hRaw = stdin[1])

\* a run without argument that follows a failed run resumes from backup.md
C4_Witness ==
    /\ runs >= 2 /\ pc = "write_backup"
    /\ argv = None /\ hBackup0 # None
    /\ source = "backup" /\ stdin = None

\* the run read an input that is empty once stripped
EmptyRun == RunEnded /\ source # "none" /\ Strip(hRaw) = <<>>

\* C5 as stated: an empty input ends the run with status 0, nothing written,
\* and no backup.md present afterwards.
C5_EmptyInputNoBackup ==
    EmptyRun =>
        /\ exitcode = "0"
        /\ index = hIndex0 /\ backup = hBackup0
        /\ backup = None

\* C5 amended: an empty input ends the run with status 0 and both files are
\* exactly as they were before the run.
C5_EmptyInputWritesNothing ==
    EmptyRun =>
        /\ exitcode = "0"
        /\ index = hIndex0 /\ backup = hBackup0
        /\ soup = None

\* an empty file argument while an earlier run's backup.md is pending
C5_Witness ==
    /\ EmptyRun /\ source = "argv" /\ hRaw # <<>>
    /\ hBackup0 # None

\* C6: insert_post puts the new post first in <main>, the earlier children
\* after it in their order; two insertions leave the later post first.
C6_NewestFirst ==
    pc \in {"unlink", "serve"} =>
        /\ index.hasMain
        /\ index.main = soup[1] \o hIndex0.main
        /\ hLast # None =>
              /\ index.main[1] = soup[1][1]
              /\ index.main[2] = hLast[1][1]

C6_Witness ==
    /\ pc = "unlink"
    /\ hLast # None /\ hLast # soup
    /\ Len(index.main) = 3

====
